---- MODULE Spec2Model ----
\* GreenSkies Ultra (src/greenskies_final.py): the emission calculation and the
\* history ledger (history.csv), driven by the handlers of GreenSkiesUltra.
\*
\* Numbers.  Python floats are modelled by exact scaled integers:
\*   distance          whole kilometres
\*   emission factor   thousandths of kg CO2 per km
\*   co2               1/CO2_SCALE kg  (CO2_SCALE = 1000 * 10 * 125, the
\*                     denominators of the factor, of RF_MULTIPLIER = 19/10 and
\*                     of the SAF term (125 - saf)/125)
\* Text.  A CSV cell / widget text is a tagged literal (Txt, Num, Iso)
\* so that formatting (f"{x:.1f}") and parsing (float(s)) are real conversions.
EXTENDS Integers, Sequences, FiniteSets, TLC

\* ---------------------------------------------------------------- bounds
MaxCalcs == 2        \* successful calculations (ledger appends) per run
MaxExports == 1      \* completed exports per run
MaxRows == 2         \* rows of a reference table loaded on its own

\* ---------------------------------------------------------------- constants
HISTORY_CSV == "history.csv"
RF_MULTIPLIER_X10 == 19
SAF_MAX_REDUCTION_PERCENT_X100 == 80
SHORT_HAUL_MAX_KM == 1500
SHORT_HAUL_LTO_CO2_FIXED_KG == 50
LONG_HAUL_LTO_CO2_FIXED_KG == 150
EARTH_RADIUS_KM == 6371
OFFSET_COST_PER_KG_X10 == 6
CO2_TO_FUEL_FACTOR_X100 == 316
FUEL_DENSITY_KG_LITER_X10 == 8
TREE_KG_PER_YEAR == 22
SAF_PERCENT_DEN == (100 * 100) \div SAF_MAX_REDUCTION_PERCENT_X100   \* 1 - saf/100*0.80 = (125 - saf)/125
FACTOR_SCALE == 1000
CO2_SCALE == FACTOR_SCALE * 10 * SAF_PERCENT_DEN

\* ---------------------------------------------------------------- text literals
Txt(s)    == [k |-> "s",   s |-> s,  n |-> 0, e |-> 0]   \* arbitrary text
Num(n, e) == [k |-> "num", s |-> "", n |-> n, e |-> e]   \* decimal literal n / 10^e
IntLit(n) == Num(n, 0)                                   \* "1000", "-100"
Dec1(n)   == Num(n, 1)                                   \* "165.0" is Dec1(1650)
Iso(n)    == [k |-> "ts",  s |-> "", n |-> n, e |-> 0]   \* isoformat() of instant n

Pow10(e) == CASE e = 0 -> 1 [] e = 1 -> 10 [] e = 2 -> 100 [] OTHER -> 1000

\* float(text): the decimal value n / 10^e, or a ValueError (ok = FALSE)
PyFloat(c) ==
  IF c.k = "num" THEN [ok |-> TRUE,  n |-> c.n, e |-> c.e]
                 ELSE [ok |-> FALSE, n |-> 0,   e |-> 0]

\* a float value in units of 10^-d (exact while the value has at most d decimals)
Scaled(v, d) ==
  IF v.e <= d THEN v.n * Pow10(d - v.e)
              ELSE v.n \div Pow10(v.e - d)

\* str.strip().upper() on the texts the model types or loads
StripUpper(s) ==
  CASE s = " del " -> "DEL"
    [] s = "bom"   -> "BOM"
    [] OTHER       -> s

Abs(x) == IF x < 0 THEN -x ELSE x

\* n * mul / den rounded half-to-even (den > 0, mul > 0), without forming n * mul
MulRoundDiv(n, mul, den) ==
  LET a   == Abs(n)
      t   == (a % den) * mul
      w   == (a \div den) * mul + t \div den
      rem == t % den
      m   == IF 2 * rem > den \/ (2 * rem = den /\ w % 2 = 1) THEN w + 1 ELSE w
  IN  IF n < 0 THEN -m ELSE m

RoundDiv(n, den) == MulRoundDiv(n, 1, den)

\* ---------------------------------------------------------------- reference data
\* rows of emission_factors_extended.csv (AircraftType, EmissionFactor_kgCO2perkm)
EmissionRows ==
  << [AircraftType |-> "A320",  EmissionFactor_kgCO2perkm |-> Num(115, 3)],
     [AircraftType |-> "ATR72", EmissionFactor_kgCO2perkm |-> Txt("n/a")],
     [AircraftType |-> "B777",  EmissionFactor_kgCO2perkm |-> Num(300, 3)] >>

\* rows of airports_extended.csv (IATA, Name, Latitude, Longitude, Country)
AirportRows ==
  << [IATA |-> " del ", Name |-> "Delhi",  Latitude |-> IntLit(29), Longitude |-> IntLit(77), Country |-> "India"],
     [IATA |-> "BOM",   Name |-> "Mumbai", Latitude |-> IntLit(19), Longitude |-> IntLit(73), Country |-> "India"],
     [IATA |-> "NUL",   Name |-> "Nowhere", Latitude |-> Txt(""),   Longitude |-> IntLit(0),  Country |-> ""] >>

\* d with d[key] = val (dict item assignment)
DictSet(d, key, val) == [x \in (DOMAIN d) \cup {key} |-> IF x = key THEN val ELSE d[x]]

EmptyDict == [x \in {} |-> 0]

RECURSIVE load_csv_factors_rows(_, _, _)
load_csv_factors_rows(rows, i, d) ==
  IF i > Len(rows) THEN d
  ELSE LET v == PyFloat(rows[i].EmissionFactor_kgCO2perkm)
       IN  load_csv_factors_rows(rows, i + 1,
             IF v.ok THEN DictSet(d, rows[i].AircraftType, Scaled(v, 3)) ELSE d)

RECURSIVE load_csv_factors_keep_first(_, _, _)
load_csv_factors_keep_first(rows, i, d) ==
  IF i > Len(rows) THEN d
  ELSE LET v == PyFloat(rows[i].EmissionFactor_kgCO2perkm)
       IN  load_csv_factors_keep_first(rows, i + 1,
             IF v.ok /\ rows[i].AircraftType \notin DOMAIN d
             THEN DictSet(d, rows[i].AircraftType, Scaled(v, 3)) ELSE d)

\* load_csv_factors keeping the first row of an aircraft type (d.setdefault)
load_csv_factors_first_wins(rows) == load_csv_factors_keep_first(rows, 1, EmptyDict)

\* aircraft type -> factor in thousandths of kg CO2 per km
load_csv_factors(rows) == load_csv_factors_rows(rows, 1, EmptyDict)

RECURSIVE factor_keys_rows(_, _, _)
factor_keys_rows(rows, i, keys) ==
  IF i > Len(rows) THEN keys
  ELSE factor_keys_rows(rows, i + 1,
         IF PyFloat(rows[i].EmissionFactor_kgCO2perkm).ok
            /\ \A j \in 1..Len(keys) : keys[j] # rows[i].AircraftType
         THEN Append(keys, rows[i].AircraftType) ELSE keys)

\* list(self.factors.keys()): the aircraft types in insertion order
factor_keys(rows) == factor_keys_rows(rows, 1, << >>)

RECURSIVE load_airports_rows(_, _, _)
load_airports_rows(rows, i, out) ==
  IF i > Len(rows) THEN out
  ELSE LET iata == StripUpper(rows[i].IATA)
           lat  == PyFloat(rows[i].Latitude)
           lon  == PyFloat(rows[i].Longitude)
       IN  load_airports_rows(rows, i + 1,
             IF lat.ok /\ lon.ok
             THEN DictSet(out, iata, [name |-> rows[i].Name, lat |-> Scaled(lat, 0),
                                      lon |-> Scaled(lon, 0), country |-> rows[i].Country])
             ELSE out)

\* IATA code -> record, coordinates in whole degrees
load_airports(rows) == load_airports_rows(rows, 1, EmptyDict)

\* ---------------------------------------------------------------- distance
TRIG_SCALE == 40000
\* SinSqHalf[d + 1] = round(TRIG_SCALE * sin(d degrees / 2)^2), d = 0..180
SinSqHalf ==
  << 0, 3, 12, 27, 49, 76, 110, 149, 195, 246, 304, 367,
     437, 513, 594, 681, 775, 874, 979, 1090, 1206, 1328, 1456, 1590,
     1729, 1874, 2024, 2180, 2341, 2508, 2679, 2857, 3039, 3227, 3419, 3617,
     3820, 4027, 4240, 4457, 4679, 4906, 5137, 5373, 5613, 5858, 6107, 6360,
     6617, 6879, 7144, 7414, 7687, 7964, 8244, 8528, 8816, 9107, 9402, 9699,
     10000, 10304, 10611, 10920, 11233, 11548, 11865, 12185, 12508, 12833, 13160, 13489,
     13820, 14153, 14487, 14824, 15162, 15501, 15842, 16184, 16527, 16871, 17217, 17563,
     17909, 18257, 18605, 18953, 19302, 19651, 20000, 20349, 20698, 21047, 21395, 21743,
     22091, 22437, 22783, 23129, 23473, 23816, 24158, 24499, 24838, 25176, 25513, 25847,
     26180, 26511, 26840, 27167, 27492, 27815, 28135, 28452, 28767, 29080, 29389, 29696,
     30000, 30301, 30598, 30893, 31184, 31472, 31756, 32036, 32313, 32586, 32856, 33121,
     33383, 33640, 33893, 34142, 34387, 34627, 34863, 35094, 35321, 35543, 35760, 35973,
     36180, 36383, 36581, 36773, 36961, 37143, 37321, 37492, 37659, 37820, 37976, 38126,
     38271, 38410, 38544, 38672, 38794, 38910, 39021, 39126, 39225, 39319, 39406, 39487,
     39563, 39633, 39696, 39754, 39805, 39851, 39890, 39924, 39951, 39973, 39988, 39997,
     40000 >>

\* |d| folded into 0..180 degrees (sin^2(x/2) is even and has period 360)
FoldDeg(d) == LET m == Abs(d) % 360 IN IF m > 180 THEN 360 - m ELSE m

\* sin(x/2)^2 and cos(x) = 1 - 2 sin(x/2)^2 for x in whole degrees, scaled
SinSq2(d) == SinSqHalf[FoldDeg(d) + 1]
Cos(d)    == TRIG_SCALE - 2 * SinSq2(d)

\* the angle, in tenths of a degree, whose sin(angle/2)^2 is a / TRIG_SCALE
\* (2*atan2(sqrt(a), sqrt(1-a))), by linear interpolation in SinSqHalf
AngleTenths(a) ==
  IF a >= TRIG_SCALE THEN 1800
  ELSE IF a <= 0 THEN 0
  ELSE LET k  == CHOOSE j \in 0..179 : SinSqHalf[j + 1] <= a /\ a < SinSqHalf[j + 2]
           lo == SinSqHalf[k + 1]
           hi == SinSqHalf[k + 2]
       IN  k * 10 + ((a - lo) * 10) \div (hi - lo)

\* haversine_km with cos(phi1) taken twice in place of cos(phi1)*cos(phi2)
haversine_km_one_sided(lat1, lon1, lat2, lon2) ==
  LET dphi    == lat2 - lat1
      dlambda == lon2 - lon1
      a == SinSq2(dphi)
           + (((Cos(lat1) * Cos(lat1)) \div TRIG_SCALE) * SinSq2(dlambda)) \div TRIG_SCALE
      c == AngleTenths(a)
  IN  RoundDiv(c * ((EARTH_RADIUS_KM * 31416) \div 1800), 10000)

\* great-circle distance in whole km between coordinates in whole degrees
haversine_km(lat1, lon1, lat2, lon2) ==
  LET dphi    == lat2 - lat1
      dlambda == lon2 - lon1
      a == SinSq2(dphi)
           + (((Cos(lat1) * Cos(lat2)) \div TRIG_SCALE) * SinSq2(dlambda)) \div TRIG_SCALE
      c == AngleTenths(a)
  IN  RoundDiv(c * ((EARTH_RADIUS_KM * 31416) \div 1800), 10000)

\* ---------------------------------------------------------------- emissions
\* estimate_co2's surcharge with the comparison < in place of <=
fixed_strict(n, e) ==
  IF n < SHORT_HAUL_MAX_KM * Pow10(e) THEN SHORT_HAUL_LTO_CO2_FIXED_KG
                                      ELSE LONG_HAUL_LTO_CO2_FIXED_KG

\* estimate_co2's surcharge with the two constants exchanged
fixed_swapped(n, e) ==
  IF n <= SHORT_HAUL_MAX_KM * Pow10(e) THEN LONG_HAUL_LTO_CO2_FIXED_KG
                                       ELSE SHORT_HAUL_LTO_CO2_FIXED_KG

\* estimate_co2's landing/take-off surcharge (kg) for a distance of n / 10^e km
fixed(n, e) ==
  IF n <= SHORT_HAUL_MAX_KM * Pow10(e) THEN SHORT_HAUL_LTO_CO2_FIXED_KG
                                       ELSE LONG_HAUL_LTO_CO2_FIXED_KG

\* estimate_co2 multiplying the cruise part alone by RF_MULTIPLIER
estimate_co2_rf_cruise_only(distance_km, base_factor, rf) ==
  LET cruise == distance_km * base_factor
      lto    == fixed(distance_km, 0) * FACTOR_SCALE
  IN  IF rf THEN cruise * RF_MULTIPLIER_X10 + lto * 10 ELSE (cruise + lto) * 10

\* estimate_co2 in units of 1 / (FACTOR_SCALE * 10) kg
estimate_co2(distance_km, base_factor, rf) ==
  LET total == distance_km * base_factor + fixed(distance_km, 0) * FACTOR_SCALE
  IN  IF rf THEN total * RF_MULTIPLIER_X10 ELSE total * 10

\* calculate_action with the SAF step left out
apply_saf_skipped(co2, saf_pct) == co2 * SAF_PERCENT_DEN

\* calculate_action's SAF step: co2 in 1 / CO2_SCALE kg
apply_saf(co2, saf_pct) ==
  IF saf_pct > 0 THEN co2 * (SAF_PERCENT_DEN - saf_pct)
                 ELSE co2 * SAF_PERCENT_DEN

\* f"{co2:.1f}": tenths of a kg
Fmt1Co2(co2) == Dec1(MulRoundDiv(co2, 10, CO2_SCALE))

\* f"{fuel_liters_from_co2(co2):.1f}": co2 / 3.16 / 0.8, in tenths of a litre
Fmt1Fuel(co2) ==
  Dec1(RoundDiv(co2, (CO2_SCALE \div 10000) * CO2_TO_FUEL_FACTOR_X100 * FUEL_DENSITY_KG_LITER_X10))

\* f"{trees_needed(co2):.1f}": co2 / 22.0, in tenths
Fmt1Trees(co2) == Dec1(RoundDiv(co2, (CO2_SCALE \div 10) * TREE_KG_PER_YEAR))

\* f"{co2 * OFFSET_COST_PER_KG:.1f}": tenths of a currency unit
Fmt1Cost(co2) == Dec1(MulRoundDiv(co2, OFFSET_COST_PER_KG_X10, CO2_SCALE))

\* ---------------------------------------------------------------- state
VARIABLES
  factors,        \* self.factors: aircraft type -> factor
  airports,       \* self.airports: IATA -> record
  os_linesep,     \* os.linesep of the platform: "LF" or "CRLF"
  fs,             \* the files: path -> [exists, lines]; a line is [cells, eol]
  origin_var, dest_var, dist_var, ac_cb, rf_var, saf_var,   \* the input widgets
  history_tree,   \* rows of the history table
  frame,          \* the frame packed into the content area: "home" or "history"
  modal,          \* title of the modal the last handler showed, "" if none
  raised,         \* exception the last handler ended with, "" if none
  clock,          \* instants handed out by datetime.now
  log,            \* history: the calculations that reached log_history_row
  exported,       \* history: number of exports carried out
  call,           \* a helper called on its own: [fn, args]; fn = "" when none is
  ret             \* what that call returned: [done, val]

vars == << factors, airports, os_linesep, fs, origin_var, dest_var, dist_var, ac_cb, rf_var, saf_var,
           history_tree, frame, modal, raised, clock, log, exported, call, ret >>

inputs == << origin_var, dest_var, dist_var, ac_cb, rf_var, saf_var >>
refdata == << factors, airports, os_linesep >>
pure == << call, ret >>

NoCall == [fn |-> "", args |-> << >>]
NoRet  == [done |-> FALSE, val |-> 0]
Returned(val) == [done |-> TRUE, val |-> val]

\* ---------------------------------------------------------------- files
EXPORT_CSV == "export.csv"
Paths == {HISTORY_CSV, EXPORT_CSV}

NoFile == [exists |-> FALSE, lines |-> << >>]
File(lines) == [exists |-> TRUE, lines |-> lines]

header ==
  << Txt("timestamp"), Txt("origin"), Txt("destination"), Txt("distance_km"),
     Txt("aircraft"), Txt("rf"), Txt("saf_pct"), Txt("co2_kg"), Txt("fuel_liters"),
     Txt("trees"), Txt("offset_inr") >>

\* csv.writer(f).writerow(row) on a file opened with newline='': the cells
\* and the excel dialect's line terminator
writerow(lines, row) == Append(lines, [cells |-> row, eol |-> "CRLF"])

\* log_history_row writing the header on every call
log_history_row_always_header(file, row) ==
  LET opened == IF file.exists THEN file.lines ELSE << >>
  IN  File(writerow(writerow(opened, header), row))

\* log_history_row opening the ledger with 'w'
log_history_row_truncating(file, row) ==
  File(writerow(writerow(<< >>, header), row))

\* the ledger after log_history_row(row)
log_history_row(file, row) ==
  LET exists == file.exists
      opened == IF exists THEN file.lines ELSE << >>        \* open(path, 'a')
      first  == IF ~exists THEN writerow(opened, header) ELSE opened
  IN  File(writerow(first, row))

\* csv.reader over a file opened with newline='': the rows' cells
csv_reader(lines) == [i \in 1..Len(lines) |-> lines[i].cells]

\* one csv.DictReader row: dict(zip(fieldnames, row)), a later duplicate name wins
DictRow(fieldnames, row) ==
  [f \in {fieldnames[i] : i \in 1..Len(fieldnames)} |->
     row[CHOOSE i \in 1..Len(fieldnames) :
           fieldnames[i] = f /\ \A j \in (i + 1)..Len(fieldnames) : fieldnames[j] # f]]

\* a plain csv.reader zipped with the ledger's column names: the header row
\* is read as a record too
DictReader_keep_header(lines) ==
  LET rows == csv_reader(lines)
  IN  [i \in 1..Len(rows) |-> DictRow(header, rows[i])]

\* csv.DictReader: the first row names the fields, the others are the records
DictReader(lines) ==
  LET rows == csv_reader(lines)
  IN  IF Len(rows) = 0 THEN << >>
      ELSE [i \in 1..(Len(rows) - 1) |-> DictRow(rows[1], rows[i + 1])]

\* f"{origin} -> {destination}"
Route(origin, destination) == origin \o " -> " \o destination

\* what one record of the ledger needs to become a history_tree row
TreeKeys == {Txt("timestamp"), Txt("origin"), Txt("destination"), Txt("distance_km"),
             Txt("aircraft"), Txt("co2_kg")}

RowError(row) ==
  IF ~(TreeKeys \subseteq DOMAIN row) THEN "KeyError"
  ELSE IF ~PyFloat(row[Txt("distance_km")]).ok \/ ~PyFloat(row[Txt("co2_kg")]).ok
       THEN "ValueError"
  ELSE ""

\* values=(timestamp, route, float(distance_km), aircraft, float(co2_kg)); Tk keeps
\* the two floats as their repr, which has one decimal for a one-decimal literal
TreeRow(row) ==
  [ts |-> row[Txt("timestamp")],
   route |-> Route(row[Txt("origin")].s, row[Txt("destination")].s),
   dist_km |-> Dec1(Scaled(PyFloat(row[Txt("distance_km")]), 1)),
   aircraft |-> row[Txt("aircraft")],
   co2_kg |-> Dec1(Scaled(PyFloat(row[Txt("co2_kg")]), 1))]

\* _refresh_history_tree: the table emptied, then one row per ledger record
\* up to the first record that raises
refresh_history_tree(file) ==
  IF ~file.exists THEN [tree |-> << >>, raised |-> ""]
  ELSE LET recs == DictReader(file.lines)
           bad  == {i \in 1..Len(recs) : RowError(recs[i]) # ""}
           stop == IF bad = {} THEN Len(recs) + 1
                   ELSE CHOOSE i \in bad : \A j \in bad : i <= j
       IN  [tree   |-> [i \in 1..(stop - 1) |-> TreeRow(recs[i])],
            raised |-> IF bad = {} THEN "" ELSE RowError(recs[stop])]

\* ---------------------------------------------------------------- inputs
\* _parse_iata_from_combo on the texts the model types: a dropdown option
\* "DEL - Delhi, India" gives its code, any other text is stripped and upper-cased
parse_iata_from_combo(text) ==
  CASE text = ""                   -> ""
    [] text = "DEL - Delhi, India" -> "DEL"
    [] OTHER                       -> StripUpper(text)

\* what the user may have typed or picked in the home frame:
\* origin, destination, manual distance, aircraft, RF box, SAF slider (0..50)
Requests ==
  { << "DEL - Delhi, India", "bom", IntLit(1000), "A320", FALSE, 0 >>,
    << "XXX", "bom", IntLit(1000), "A320", FALSE, 0 >>,
    << "", "", IntLit(1000), "A320", TRUE, 50 >>,
    << "", "", Txt("abc"), "A320", FALSE, 0 >>,
    << "", "", IntLit(-1000), "A320", FALSE, 0 >>,
    << "DEL", "", IntLit(2000), "Zeppelin", TRUE, 50 >> }

\* the codes a route of the history table can be made of
Codes == {parse_iata_from_combo(r[1]) : r \in Requests}
           \cup {parse_iata_from_combo(r[2]) : r \in Requests}

\* route.split(' -> ') unpacked into origin, dest; ("", "") when it does not
\* give exactly two parts
SplitRoute(route) ==
  IF \E o \in Codes, d \in Codes : Route(o, d) = route
  THEN CHOOSE p \in Codes \X Codes : Route(p[1], p[2]) = route
  ELSE << "", "" >>

PyStrBool(b) == IF b THEN "True" ELSE "False"

\* the list calculate_action hands to log_history_row
HistoryEntry(ts, origin, dest, dist, ac, rf, saf_pct, co2) ==
  << Iso(ts), Txt(origin), Txt(dest), Dec1(dist * 10), Txt(ac), Txt(PyStrBool(rf)),
     IntLit(saf_pct), Fmt1Co2(co2), Fmt1Fuel(co2), Fmt1Trees(co2), Fmt1Cost(co2) >>

\* ---------------------------------------------------------------- Init
\* the window after GreenSkiesUltra.__init__
Constructed ==
  /\ factors = load_csv_factors(EmissionRows)
  /\ airports = load_airports(AirportRows)
  /\ os_linesep \in {"LF", "CRLF"}
  /\ fs = [p \in Paths |-> NoFile]
  /\ history_tree = refresh_history_tree(NoFile).tree
  /\ origin_var = "" /\ dest_var = "" /\ dist_var = Txt("")
  /\ ac_cb = factor_keys(EmissionRows)[1]
  /\ rf_var = FALSE /\ saf_var = 0
  /\ frame = "home"
  /\ modal = "" /\ raised = ""
  /\ clock = 1
  /\ log = << >>
  /\ exported = 0

Init ==
  /\ Constructed
  /\ call = NoCall /\ ret = NoRet

\* ---------------------------------------------------------------- handlers
\* the user fills in the home frame
UserInput ==
  /\ frame = "home"
  /\ \E r \in Requests :
       /\ origin_var' = r[1] /\ dest_var' = r[2] /\ dist_var' = r[3]
       /\ ac_cb' = r[4] /\ rf_var' = r[5] /\ saf_var' = r[6]
  /\ modal' = "" /\ raised' = ""
  /\ UNCHANGED << refdata, pure, fs, history_tree, frame, clock, log, exported >>

\* a handler that returns after show_modern_modal(title) and changes nothing else
Reject(title) ==
  /\ modal' = title /\ raised' = ""
  /\ UNCHANGED << refdata, pure, fs, inputs, history_tree, frame, clock, log, exported >>

Origin == parse_iata_from_combo(origin_var)
Dest   == parse_iata_from_combo(dest_var)
UsesPair == Origin # "" /\ Dest # ""

\* calculate_action's distance with the manual field tried first
Distance_manual_first ==
  IF PyFloat(dist_var).ok
  THEN [ok |-> TRUE, title |-> "", dist |-> Scaled(PyFloat(dist_var), 0)]
  ELSE IF ~UsesPair
       THEN [ok |-> FALSE, title |-> "Input Required", dist |-> 0]
  ELSE IF Origin \notin DOMAIN airports \/ Dest \notin DOMAIN airports
       THEN [ok |-> FALSE, title |-> "Airport Not Found", dist |-> 0]
  ELSE [ok |-> TRUE, title |-> "",
        dist |-> haversine_km(airports[Origin].lat, airports[Origin].lon,
                              airports[Dest].lat, airports[Dest].lon)]

\* calculate_action's distance: [ok, title, dist]
Distance ==
  IF UsesPair
  THEN IF Origin \notin DOMAIN airports \/ Dest \notin DOMAIN airports
       THEN [ok |-> FALSE, title |-> "Airport Not Found", dist |-> 0]
       ELSE [ok |-> TRUE, title |-> "",
             dist |-> haversine_km(airports[Origin].lat, airports[Origin].lon,
                                   airports[Dest].lat, airports[Dest].lon)]
  ELSE IF ~PyFloat(dist_var).ok
       THEN [ok |-> FALSE, title |-> "Input Required", dist |-> 0]
       ELSE [ok |-> TRUE, title |-> "", dist |-> Scaled(PyFloat(dist_var), 0)]

\* calculate_action from the SAF step on: results shown, entry logged, table refreshed
Calculate(dist) ==
  LET ac    == ac_cb
      rf    == rf_var
      co2   == apply_saf(estimate_co2(dist, factors[ac], rf), saf_var)
      entry == HistoryEntry(clock, Origin, Dest, dist, ac, rf, saf_var, co2)
      file  == log_history_row(fs[HISTORY_CSV], entry)
      shown == refresh_history_tree(file)
  IN  /\ fs' = [fs EXCEPT ![HISTORY_CSV] = file]
      /\ history_tree' = shown.tree
      /\ raised' = shown.raised
      /\ modal' = ""
      /\ clock' = clock + 1
      /\ log' = Append(log, [ts |-> clock, origin |-> Origin, dest |-> Dest, dist |-> dist,
                             ac |-> ac, rf |-> rf, saf_pct |-> saf_var, co2 |-> co2])
      /\ UNCHANGED << refdata, pure, inputs, frame, exported >>

\* calculate_action logging before it has checked the aircraft
calculate_action_log_first ==
  /\ frame = "home"
  /\ Len(log) < MaxCalcs
  /\ IF ~Distance.ok THEN Reject(Distance.title)
     ELSE IF ac_cb \notin DOMAIN factors
          THEN /\ fs' = [fs EXCEPT ![HISTORY_CSV] =
                         log_history_row(@, HistoryEntry(clock, Origin, Dest, Distance.dist,
                                                         ac_cb, rf_var, saf_var, 0))]
               /\ modal' = "Aircraft Required" /\ raised' = ""
               /\ UNCHANGED << refdata, pure, inputs, history_tree, frame, clock, log, exported >>
     ELSE Calculate(Distance.dist)

calculate_action ==
  /\ frame = "home"
  /\ Len(log) < MaxCalcs
  /\ IF ~Distance.ok THEN Reject(Distance.title)
     ELSE IF ac_cb \notin DOMAIN factors THEN Reject("Aircraft Required")
     ELSE Calculate(Distance.dist)

\* compare_action appending a row to the ledger once its estimates are made
compare_action_logging ==
  /\ frame = "home"
  /\ \E PLOT_OK \in BOOLEAN :
       LET pair   == UsesPair /\ Origin \in DOMAIN airports /\ Dest \in DOMAIN airports
           manual == IF dist_var = Txt("") THEN IntLit(0) ELSE dist_var
       IN  IF ~pair /\ ~PyFloat(manual).ok THEN Reject("Input Required")
           ELSE /\ fs' = [fs EXCEPT ![HISTORY_CSV] =
                          log_history_row(@, HistoryEntry(clock, Origin, Dest, 0,
                                                          ac_cb, rf_var, saf_var, 0))]
                /\ modal' = (IF PLOT_OK THEN "" ELSE "Matplotlib Required") /\ raised' = ""
                /\ UNCHANGED << refdata, pure, inputs, history_tree, frame, clock, log, exported >>

\* compare_action: the distance falls back to the manual field (0 when empty),
\* one estimate per aircraft, then the chart, or a modal when matplotlib is
\* not installed (PLOT_OK)
compare_action ==
  /\ frame = "home"
  /\ \E PLOT_OK \in BOOLEAN :
       LET pair   == UsesPair /\ Origin \in DOMAIN airports /\ Dest \in DOMAIN airports
           manual == IF dist_var = Txt("") THEN IntLit(0) ELSE dist_var
       IN  IF ~pair /\ ~PyFloat(manual).ok THEN Reject("Input Required")
           ELSE IF ~PLOT_OK THEN Reject("Matplotlib Required")
           ELSE Reject("")

\* show_history reading through a file opened with 'a+', which creates it
show_history_creating ==
  /\ LET file  == IF fs[HISTORY_CSV].exists THEN fs[HISTORY_CSV] ELSE File(<< >>)
         shown == refresh_history_tree(file)
     IN  /\ fs' = [fs EXCEPT ![HISTORY_CSV] = file]
         /\ history_tree' = shown.tree /\ raised' = shown.raised
  /\ frame' = "history"
  /\ modal' = ""
  /\ UNCHANGED << refdata, pure, inputs, clock, log, exported >>

show_home ==
  /\ frame' = "home"
  /\ modal' = "" /\ raised' = ""
  /\ UNCHANGED << refdata, pure, fs, inputs, history_tree, clock, log, exported >>

\* show_history: the history frame is packed and its table refreshed
show_history ==
  /\ frame' = "history"
  /\ LET shown == refresh_history_tree(fs[HISTORY_CSV])
     IN  history_tree' = shown.tree /\ raised' = shown.raised
  /\ modal' = ""
  /\ UNCHANGED << refdata, pure, fs, inputs, clock, log, exported >>

\* load_selected_history with row sel of the table selected (0: none)
load_selected_history ==
  /\ frame = "history"
  /\ \E sel \in 0..Len(history_tree) :
       IF sel = 0 THEN Reject("No Selection")
       ELSE LET vals == history_tree[sel]
                od   == SplitRoute(vals.route)
            IN  /\ origin_var' = od[1]
                /\ dest_var' = od[2]
                /\ dist_var' = vals.dist_km
                /\ ac_cb' = vals.aircraft.s
                /\ frame' = "home"
                /\ modal' = "" /\ raised' = ""
                /\ UNCHANGED << refdata, pure, fs, rf_var, saf_var,
                                history_tree, clock, log, exported >>

reset_home ==
  /\ frame = "home"
  /\ origin_var' = "" /\ dest_var' = "" /\ dist_var' = Txt("")
  /\ ac_cb' = IF DOMAIN factors # {} THEN factor_keys(EmissionRows)[1] ELSE ac_cb
  /\ rf_var' = FALSE /\ saf_var' = 0
  /\ modal' = "" /\ raised' = ""
  /\ UNCHANGED << refdata, pure, fs, history_tree, frame, clock, log, exported >>

\* src.read() of a file opened in text mode: every line end arrives as "\n"
read_text(lines) == [i \in 1..Len(lines) |-> [cells |-> lines[i].cells, eol |-> "LF"]]

\* dst.write(text) to a file opened in text mode: "\n" leaves as os.linesep
write_text(text, linesep) ==
  [i \in 1..Len(text) |->
     [cells |-> text[i].cells, eol |-> IF text[i].eol = "LF" THEN linesep ELSE text[i].eol]]

\* the files after export_history copied the ledger to target: both files are
\* opened (the target truncated) before the ledger is read
export_copy(files, target, linesep) ==
  LET opened == [files EXCEPT ![target] = File(<< >>)]
      text   == read_text(opened[HISTORY_CSV].lines)
  IN  [opened EXCEPT ![target] = File(write_text(text, linesep))]

\* export_history without the check that the ledger exists
export_history_unguarded ==
  \E target \in Paths \cup {""} :
    IF target = "" THEN Reject("")
    ELSE /\ exported < MaxExports
         /\ fs' = export_copy(fs, target, os_linesep)
         /\ exported' = exported + 1
         /\ modal' = "Export Successful" /\ raised' = ""
         /\ UNCHANGED << refdata, pure, inputs, history_tree, frame, clock, log >>

\* export_history with the save dialog answering target ("" when cancelled)
export_history ==
  \E target \in Paths \cup {""} :
    IF ~fs[HISTORY_CSV].exists THEN Reject("No History")
    ELSE IF target = "" THEN Reject("")
    ELSE /\ exported < MaxExports
         /\ fs' = export_copy(fs, target, os_linesep)
         /\ exported' = exported + 1
         /\ modal' = "Export Successful" /\ raised' = ""
         /\ UNCHANGED << refdata, pure, inputs, history_tree, frame, clock, log >>

\* ---------------------------------------------------------------- specification
Next ==
  \/ UserInput
  \/ calculate_action
  \/ compare_action
  \/ show_home
  \/ show_history
  \/ load_selected_history
  \/ reset_home
  \/ export_history

Spec == Init /\ [][Next]_vars

\* the calculation block called with any SAF percentage: the slider keeps
\* saf_var within 0..50, a caller of lines 795-829 is not held to it
EngineRequests ==
  { << "", "", IntLit(1000), "A320", FALSE, saf >> : saf \in {-10, 0, 50, 100, 101, 150} }
    \cup { << "", "", IntLit(1000), "A320", TRUE, saf >> : saf \in {50, 150} }
    \cup { << "", "", Txt("abc"), "A320", FALSE, 150 >> }

EngineInput ==
  /\ frame = "home"
  /\ \E r \in EngineRequests :
       /\ origin_var' = r[1] /\ dest_var' = r[2] /\ dist_var' = r[3]
       /\ ac_cb' = r[4] /\ rf_var' = r[5] /\ saf_var' = r[6]
  /\ modal' = "" /\ raised' = ""
  /\ UNCHANGED << refdata, pure, fs, history_tree, frame, clock, log, exported >>

NextEngine ==
  \/ EngineInput
  \/ calculate_action

SpecEngine == Init /\ [][NextEngine]_vars

\* ---------------------------------------------------------------- helpers called on their own
\* co2 as calculate_action computes it (lines 798-802)
co2_kg(dist, base_factor, rf, saf_pct) == apply_saf(estimate_co2(dist, base_factor, rf), saf_pct)

\* distances as decimal literals, around SHORT_HAUL_MAX_KM
DistanceLiterals ==
  { IntLit(-5), IntLit(0), IntLit(1499), Num(1499999, 3), IntLit(1500), Dec1(15000),
    Num(1500001, 3), Dec1(15001), IntLit(1501), IntLit(3000) }

\* valid arguments of the calculation: whole km, factor in thousandths, rf, saf_pct
Distances == {0, 1, 1000, 1499, 1500, 1501, 2000}
Factors   == {115, 300}
SafBlends == {0, 50, 100}

FixedCalls == { [fn |-> "fixed", args |-> << d >>] : d \in DistanceLiterals }
Co2Calls ==
  { [fn |-> "co2_kg", args |-> a] : a \in Distances \X Factors \X BOOLEAN \X SafBlends }

\* rows an emission-factor file can hold: a factor that is positive, zero,
\* negative, or not a number
EmissionRowSet ==
  { [AircraftType |-> t, EmissionFactor_kgCO2perkm |-> c] :
      t \in {"A320", "B777"},
      c \in {Num(115, 3), Num(300, 3), Num(0, 3), Num(-115, 3), Txt("n/a")} }

\* rows an airports file can hold: coordinates in range, out of range, or
\* not a number
AirportRowSet ==
  { [IATA |-> i, Name |-> "Somewhere", Latitude |-> lat, Longitude |-> lon, Country |-> "India"] :
      i \in {" del ", "BOM"},
      lat \in {IntLit(29), IntLit(95), Txt("")},
      lon \in {IntLit(77), IntLit(-200)} }

\* the files of at most MaxRows rows
Tables(rowset) == UNION { [1..n -> rowset] : n \in 0..MaxRows }

FactorsCalls  == { [fn |-> "load_csv_factors", args |-> << rows >>] : rows \in Tables(EmissionRowSet) }
AirportsCalls == { [fn |-> "load_airports", args |-> << rows >>] : rows \in Tables(AirportRowSet) }

\* coordinates in whole degrees, poles and the date line included
Coordinates == {-90, -33, 0, 19, 29, 90} \X {-180, -77, 0, 73, 77}

HaversineCalls ==
  { [fn |-> "haversine_km", args |-> << a[1], a[2], b[1], b[2] >>] :
      a \in Coordinates, b \in Coordinates }

Calls == FixedCalls \cup Co2Calls \cup FactorsCalls \cup AirportsCalls \cup HaversineCalls

InitPure ==
  /\ Constructed
  /\ call \in Calls /\ ret = NoRet

\* the call returns: ret holds its value, nothing else changes
Return(val) ==
  /\ ~ret.done
  /\ ret' = Returned(val)
  /\ UNCHANGED << refdata, call, fs, inputs, history_tree, frame, modal, raised,
                  clock, log, exported >>

call_fixed ==
  /\ call.fn = "fixed"
  /\ Return(fixed(call.args[1].n, call.args[1].e))

call_co2_kg ==
  /\ call.fn = "co2_kg"
  /\ Return(co2_kg(call.args[1], call.args[2], call.args[3], call.args[4]))

call_load_csv_factors ==
  /\ call.fn = "load_csv_factors"
  /\ Return(load_csv_factors(call.args[1]))

call_load_airports ==
  /\ call.fn = "load_airports"
  /\ Return(load_airports(call.args[1]))

call_haversine_km ==
  /\ call.fn = "haversine_km"
  /\ Return(haversine_km(call.args[1], call.args[2], call.args[3], call.args[4]))

NextPure ==
  \/ call_haversine_km
  \/ call_fixed
  \/ call_co2_kg
  \/ call_load_csv_factors
  \/ call_load_airports

SpecPure == InitPure /\ [][NextPure]_vars

\* ---------------------------------------------------------------- properties
Ledger == fs[HISTORY_CSV]

IsPrefix(a, b) == Len(a) <= Len(b) /\ SubSeq(b, 1, Len(a)) = a

\* the cells calculation c of the log is due in the ledger
ExpectedCells(c) ==
  LET co2 == apply_saf(estimate_co2(c.dist, factors[c.ac], c.rf), c.saf_pct)
  IN  << Iso(c.ts), Txt(c.origin), Txt(c.dest), Dec1(c.dist * 10), Txt(c.ac),
         Txt(IF c.rf THEN "True" ELSE "False"), IntLit(c.saf_pct),
         Dec1(MulRoundDiv(co2, 10, CO2_SCALE)), Fmt1Fuel(co2), Fmt1Trees(co2), Fmt1Cost(co2) >>

ErrorTitles == {"Airport Not Found", "Input Required", "Aircraft Required"}

BadAirport  == Origin # "" /\ Dest # ""
               /\ (Origin \notin DOMAIN airports \/ Dest \notin DOMAIN airports)
BadManual   == (Origin = "" \/ Dest = "") /\ dist_var.k # "num"
BadAircraft == ac_cb \notin DOMAIN factors

\* C1: while the ledger is only appended to (no export has run) from a store
\* that did not exist, the header is written exactly once: the store exists
\* iff something was appended, its first row is the header, no later row is a
\* header, and it holds one row per append after it.
C1_HeaderOnce ==
  exported = 0 =>
    /\ Ledger.exists <=> log # << >>
    /\ Ledger.exists =>
         /\ Len(Ledger.lines) = Len(log) + 1
         /\ Ledger.lines[1].cells = header
         /\ \A i \in 2..Len(Ledger.lines) : Ledger.lines[i].cells # header

C1_Witness == exported = 0 /\ Len(log) = 2 /\ Len(Ledger.lines) = 3

\* C2: the ledger is append-only: every step of every handler leaves the
\* ledger's earlier content a prefix of its later content, and never removes it.
C2_AppendOnly ==
  [][/\ IsPrefix(Ledger.lines, Ledger'.lines)
     /\ Ledger.exists => Ledger'.exists]_vars

\* C3: appending N entries to a store that did not exist and reading it back
\* gives exactly N records, in append order, each field of each record being
\* the text appended for it; the history table shows the same N rows.
C3_RoundTrip ==
  exported = 0 =>
    LET recs == DictReader(Ledger.lines)
    IN  /\ Len(recs) = Len(log)
        /\ \A k \in 1..Len(log) : \A j \in 1..Len(header) :
             /\ header[j] \in DOMAIN recs[k]
             /\ recs[k][header[j]] = ExpectedCells(log[k])[j]
        /\ raised = ""
        /\ Len(history_tree) = Len(log)
        /\ \A k \in 1..Len(log) :
             /\ history_tree[k].ts = Iso(log[k].ts)
             /\ history_tree[k].route = log[k].origin \o " -> " \o log[k].dest
             /\ history_tree[k].dist_km = Dec1(log[k].dist * 10)
             /\ history_tree[k].aircraft = Txt(log[k].ac)
             /\ history_tree[k].co2_kg = ExpectedCells(log[k])[8]

C3_Witness ==
  /\ exported = 0 /\ Len(log) = 2 /\ Len(history_tree) = 2
  /\ history_tree[1] # history_tree[2]

\* C4: an export that is carried out (the ledger exists, a destination was
\* chosen) leaves the ledger as it was and the destination an identical copy
\* of it, line ends included.
C4_ExportVerbatim ==
  [][exported' = exported + 1 =>
       /\ Ledger' = Ledger
       /\ \E target \in Paths : fs'[target] = Ledger]_vars

\* C5: while the ledger does not exist, export ends with the "No History"
\* modal, writes no file and does not create the ledger.
C5_NoHistory ==
  [][(~Ledger.exists /\ export_history) =>
       /\ modal' = "No History"
       /\ fs' = fs
       /\ exported' = exported]_vars

C5_Witness == modal = "No History" /\ ~Ledger.exists /\ \A p \in Paths : ~fs[p].exists

\* C6: the ledger is created lazily and reading never touches it: it does not
\* exist before the first append, only an append brings it into existence,
\* show_history leaves every file as it was, and with no ledger the table it
\* reads is empty and no error is raised.
C6_LazyStore ==
  [][/\ log = << >> => ~Ledger.exists
     /\ log' = << >> => ~Ledger'.exists
     /\ (~Ledger.exists /\ Ledger'.exists) => log' # log
     /\ show_history =>
          /\ fs' = fs
          /\ ~Ledger.exists => (history_tree' = << >> /\ raised' = "")]_vars

C6_Witness ==
  /\ frame = "history" /\ ~Ledger.exists /\ history_tree = << >> /\ raised = ""
  /\ log = << >> /\ modal = ""

\* C7: a calculation rejected for its input (unknown airport code, manual
\* distance that is not a number, unknown aircraft type) shows an error and
\* leaves every file, the ledger included, and the count of entries as they were.
C7_RejectedNoAppend ==
  [][(calculate_action /\ (BadAirport \/ BadManual \/ BadAircraft)) =>
       /\ modal' \in ErrorTitles
       /\ fs' = fs
       /\ log' = log]_vars

C7_Witness == modal \in ErrorTitles /\ Len(log) = 1 /\ Len(Ledger.lines) = 2

\* C8: a calculation whose distance is negative is rejected: an error is
\* shown and nothing is appended to the ledger.
C8_NegativeRejected ==
  [][(calculate_action /\ ~(Origin # "" /\ Dest # "")
        /\ dist_var.k = "num" /\ dist_var.n < 0) =>
       /\ modal' # ""
       /\ fs' = fs
       /\ log' = log]_vars

C10_OneRowPerCalculation ==
  exported = 0 =>
    LET rows == csv_reader(Ledger.lines)
    IN  /\ Len(rows) = (IF log = << >> THEN 0 ELSE Len(log) + 1)
        /\ \A k \in 1..Len(log) : rows[k + 1] = ExpectedCells(log[k])

C10_Witness ==
  /\ exported = 0 /\ Len(log) = 2
  /\ log[1].origin = "DEL" /\ log[1].dest = "BOM"
  /\ log[2].rf /\ log[2].saf_pct = 50
  /\ Ledger.lines[3].cells[8] = Dec1(1881)

\* C11: the landing/take-off surcharge of the estimate is 50 kg for every
\* distance up to and including 1500 km and 150 kg for every distance above
\* it, however little above; the estimate without RF and SAF is the cruise
\* emission plus that surcharge.
C11_LtoSurcharge ==
  ret.done =>
    /\ call.fn = "fixed" =>
          LET d == call.args[1]
              m == d.n * Pow10(3 - d.e)          \* the distance in metres
          IN  ret.val = IF m <= 1500000 THEN 50 ELSE 150
    /\ (call.fn = "co2_kg" /\ ~call.args[3] /\ call.args[4] = 0) =>
          LET d == call.args[1]
          IN  ret.val = (d * call.args[2] + (IF d <= 1500 THEN 50000 ELSE 150000)) * 1250

C11_Witness ==
  /\ ret.done /\ call.fn = "fixed"
  /\ call.args[1] = Num(1500001, 3) /\ ret.val = 150

C14_NonNegativeCo2 ==
  /\ \A k \in 1..Len(log) : log[k].co2 >= 0
  /\ \A i \in 1..Len(Ledger.lines) : \A j \in 8..11 : Ledger.lines[i].cells[j].n >= 0

\* C15: after loading the emission-factor table from any rows, every factor
\* in the mapping is greater than 0, and every row whose factor is a number
\* greater than 0 has its aircraft type in the mapping (a row that does not
\* qualify is dropped, the load goes on).
C15_FactorsPositive ==
  (ret.done /\ call.fn = "load_csv_factors") =>
    LET rows == call.args[1]
    IN  /\ \A t \in DOMAIN ret.val : ret.val[t] > 0
        /\ \A i \in 1..Len(rows) :
             (rows[i].EmissionFactor_kgCO2perkm.k = "num"
                /\ rows[i].EmissionFactor_kgCO2perkm.n > 0)
               => rows[i].AircraftType \in DOMAIN ret.val

\* C16: after loading the airport table from any rows, every record in the
\* mapping has a latitude in [-90, 90] and a longitude in [-180, 180], and
\* every row with such coordinates has its code in the mapping.
C16_CoordinatesInRange ==
  (ret.done /\ call.fn = "load_airports") =>
    LET rows == call.args[1]
        inrange(lat, lon) == lat >= -90 /\ lat <= 90 /\ lon >= -180 /\ lon <= 180
    IN  /\ \A a \in DOMAIN ret.val : inrange(ret.val[a].lat, ret.val[a].lon)
        /\ \A i \in 1..Len(rows) :
             (rows[i].Latitude.k = "num" /\ rows[i].Longitude.k = "num"
                /\ inrange(rows[i].Latitude.n, rows[i].Longitude.n))
               => StripUpper(rows[i].IATA) \in DOMAIN ret.val

\* C17: when several rows of the emission-factor table name the same aircraft
\* type, the mapping holds one entry for the type, with the factor of the last
\* of those rows whose factor is a number.
C17_LastRowWins ==
  (ret.done /\ call.fn = "load_csv_factors") =>
    LET rows == call.args[1]
        parses(i) == rows[i].EmissionFactor_kgCO2perkm.k = "num"
        types == {rows[i].AircraftType : i \in {j \in 1..Len(rows) : parses(j)}}
        last(t) == CHOOSE i \in 1..Len(rows) :
                     /\ parses(i) /\ rows[i].AircraftType = t
                     /\ \A j \in (i + 1)..Len(rows) : ~(parses(j) /\ rows[j].AircraftType = t)
    IN  /\ DOMAIN ret.val = types
        /\ \A t \in types : ret.val[t] = rows[last(t)].EmissionFactor_kgCO2perkm.n

C17_Witness ==
  /\ ret.done /\ call.fn = "load_csv_factors"
  /\ Len(call.args[1]) = 2
  /\ call.args[1][1] = [AircraftType |-> "A320", EmissionFactor_kgCO2perkm |-> Num(115, 3)]
  /\ call.args[1][2] = [AircraftType |-> "A320", EmissionFactor_kgCO2perkm |-> Num(300, 3)]
  /\ DOMAIN ret.val = {"A320"} /\ ret.val["A320"] = 300

\* C18: the great-circle distance is symmetric, the distance from a to b is
\* the distance from b to a, and it is 0 when both ends are the same coordinates.
C18_HaversineSymmetric ==
  (ret.done /\ call.fn = "haversine_km") =>
    LET lat1 == call.args[1]
        lon1 == call.args[2]
        lat2 == call.args[3]
        lon2 == call.args[4]
    IN  /\ ret.val = haversine_km(lat2, lon2, lat1, lon1)
        /\ (lat1 = lat2 /\ lon1 = lon2) => ret.val = 0

C18_Witness ==
  /\ ret.done /\ call.fn = "haversine_km"
  /\ call.args = << 29, 77, -33, -77 >>
  /\ ret.val > 0
  /\ ret.val = haversine_km(-33, -77, 29, 77)

\* C19: the RF multiplier 1.9 applies to cruise emission plus surcharge, and
\* the SAF reduction comes after it:
\* co2 = (distance * factor + LTO) * (1.9 if RF else 1) * (1 - saf/100 * 0.80);
\* distance 1000 and factor 0.115 give 165.0 kg, 313.5 kg with RF, and
\* 188.1 kg with RF and an SAF blend of 50.
C19_RfAfterLto ==
  (ret.done /\ call.fn = "co2_kg") =>
    LET d   == call.args[1]
        f   == call.args[2]
        rf  == call.args[3]
        saf == call.args[4]
        lto == IF d <= 1500 THEN 50 ELSE 150
        tenth == CO2_SCALE \div 10               \* 0.1 kg
    IN  /\ ret.val = (d * f + lto * 1000) * (IF rf THEN 19 ELSE 10) * (125 - saf)
        /\ call.args = << 1000, 115, FALSE, 0 >> => ret.val = 1650 * tenth
        /\ call.args = << 1000, 115, TRUE, 0 >>  => ret.val = 3135 * tenth
        /\ call.args = << 1000, 115, TRUE, 50 >> => ret.val = 1881 * tenth

C19_Witness ==
  /\ ret.done /\ call.fn = "co2_kg"
  /\ call.args = << 1000, 115, TRUE, 50 >>
  /\ ret.val = 1881 * (CO2_SCALE \div 10)

\* C20: when a calculate request has both an origin and a destination, the
\* airport pair takes precedence over the manual distance: the distance is
\* the great-circle distance of the pair, and an unknown code rejects the
\* request even if a valid manual distance is given; the manual distance is
\* used only when the origin or the destination is empty.
C20_PairPrecedence ==
  [][calculate_action =>
       LET both  == Origin # "" /\ Dest # ""
           known == Origin \in DOMAIN airports /\ Dest \in DOMAIN airports
           added == log'[Len(log')]
       IN  /\ (both /\ ~known) =>
                 (modal' = "Airport Not Found" /\ log' = log /\ fs' = fs)
           /\ (both /\ known /\ log' # log) =>
                 added.dist = haversine_km(airports[Origin].lat, airports[Origin].lon,
                                           airports[Dest].lat, airports[Dest].lon)
           /\ (~both /\ log' # log) =>
                 (dist_var.k = "num" /\ added.dist * Pow10(dist_var.e) = dist_var.n)]_vars

C20_Witness ==
  /\ Len(log) = 1 /\ modal = ""
  /\ origin_var = "DEL - Delhi, India" /\ dest_var = "bom" /\ dist_var = IntLit(1000)
  /\ log[1].origin = "DEL" /\ log[1].dest = "BOM"
  /\ log[1].dist = haversine_km(29, 77, 19, 73) /\ log[1].dist # 1000
  /\ Ledger.lines[2].cells[4] = Dec1(log[1].dist * 10)

\* C21: the aircraft comparison never writes to storage: whatever its outcome
\* (chart shown, invalid input, plotting unavailable), every file, the ledger
\* included, is as it was, and so are the loaded aircraft-factor and airport
\* tables and the count of logged calculations.
C21_CompareReadOnly ==
  [][compare_action =>
       /\ modal' \in {"", "Input Required", "Matplotlib Required"}
       /\ fs' = fs
       /\ log' = log
       /\ factors' = factors
       /\ airports' = airports]_vars

C21_Witness ==
  /\ modal = "Matplotlib Required"
  /\ Len(log) = 1 /\ Ledger.exists /\ Len(Ledger.lines) = 2
  /\ factors = load_csv_factors(EmissionRows) /\ airports = load_airports(AirportRows)

====
